---- MODULE Spec2Model ----
(***************************************************************************)
(* Model of the subscription flow of scholarship-watcher:                  *)
(*   src/netlify/functions/subscribe.js  (Subscribe Endpoint and           *)
(*                                        Subscriber Store)                *)
(*   src/web/script.js                   (Client Form Controller)          *)
(*   src/Dockerfile, lines 68-140        (Countries Endpoint)              *)
(* Strings are TLA+ strings, read character by character with SubSeq.      *)
(* JavaScript values of a parsed body are records [t, s, a]: t is the      *)
(* typeof-like tag, s the text of a string / number / boolean, a the       *)
(* elements of an array.                                                   *)
(***************************************************************************)
EXTENDS Integers, Sequences, FiniteSets, TLC

(***************************************************************************)
(* Bounds of the model.                                                    *)
(***************************************************************************)
\* number of requests handled in one behaviour
MaxRequests == 3

(***************************************************************************)
(* JavaScript values.                                                      *)
(***************************************************************************)
Undef == [t |-> "undefined", s |-> "", a |-> <<>>]
Null == [t |-> "null", s |-> "", a |-> <<>>]
Str(x) == [t |-> "string", s |-> x, a |-> <<>>]
Num(x) == [t |-> "number", s |-> x, a |-> <<>>]
Bool(x) == [t |-> "boolean", s |-> x, a |-> <<>>]
Obj == [t |-> "object", s |-> "", a |-> <<>>]
Arr(x) == [t |-> "array", s |-> "", a |-> x]

\* JavaScript truthiness of a value (the values NaN and -0 do not occur)
Truthy(v) ==
    CASE v.t = "undefined" -> FALSE
      [] v.t = "null" -> FALSE
      [] v.t = "string" -> v.s # ""
      [] v.t = "number" -> v.s # "0"
      [] v.t = "boolean" -> v.s = "true"
      [] OTHER -> TRUE

(***************************************************************************)
(* String primitives: String.prototype.trim, toLowerCase, toUpperCase,     *)
(* split(','), includes, on ASCII text.                                    *)
(***************************************************************************)
Ch(s, i) == SubSeq(s, i, i)

Lowers == "abcdefghijklmnopqrstuvwxyz"
Uppers == "ABCDEFGHIJKLMNOPQRSTUVWXYZ"

IsWs(c) == c \in {" ", "\t", "\n", "\r"}

LowerOf == [c \in {Ch(Uppers, i) : i \in 1..Len(Uppers)} |->
               Ch(Lowers, CHOOSE i \in 1..Len(Uppers) : Ch(Uppers, i) = c)]
UpperOf == [c \in {Ch(Lowers, i) : i \in 1..Len(Lowers)} |->
               Ch(Uppers, CHOOSE i \in 1..Len(Lowers) : Ch(Lowers, i) = c)]

LowerChar(c) == IF c \in DOMAIN LowerOf THEN LowerOf[c] ELSE c

UpperChar(c) == IF c \in DOMAIN UpperOf THEN UpperOf[c] ELSE c

RECURSIVE toLowerCase(_)
toLowerCase(s) ==
    IF s = "" THEN "" ELSE LowerChar(Ch(s, 1)) \o toLowerCase(SubSeq(s, 2, Len(s)))

RECURSIVE toUpperCase(_)
toUpperCase(s) ==
    IF s = "" THEN "" ELSE UpperChar(Ch(s, 1)) \o toUpperCase(SubSeq(s, 2, Len(s)))

RECURSIVE trimStart(_)
trimStart(s) ==
    IF s # "" /\ IsWs(Ch(s, 1)) THEN trimStart(SubSeq(s, 2, Len(s))) ELSE s

RECURSIVE trimEnd(_)
trimEnd(s) ==
    IF s # "" /\ IsWs(Ch(s, Len(s))) THEN trimEnd(SubSeq(s, 1, Len(s) - 1)) ELSE s

trim(s) == trimEnd(trimStart(s))

\* s.split(','): the pieces between the commas, empty pieces kept
RECURSIVE split(_)
split(s) ==
    IF \E i \in 1..Len(s) : Ch(s, i) = ","
    THEN LET i == CHOOSE k \in 1..Len(s) :
                      /\ Ch(s, k) = ","
                      /\ \A j \in 1..(k - 1) : Ch(s, j) # ","
         IN  <<SubSeq(s, 1, i - 1)>> \o split(SubSeq(s, i + 1, Len(s)))
    ELSE <<s>>

\* String.prototype.includes
includes(s, sub) ==
    \E i \in 1..(Len(s) - Len(sub) + 1) : SubSeq(s, i, i + Len(sub) - 1) = sub

(***************************************************************************)
(* JSON.parse of a text. Grammar covered: null, true, false, integers,     *)
(* strings without escapes, {} and arrays of these; every other text       *)
(* throws SyntaxError. (The inputs of the model hold no fractions,         *)
(* escapes, nested arrays or non-empty objects.)                           *)
(***************************************************************************)
Digits == "0123456789"
IsDigit(c) == \E i \in 1..Len(Digits) : Ch(Digits, i) = c

IsJsonNumber(s) ==
    LET u == IF s # "" /\ Ch(s, 1) = "-" THEN SubSeq(s, 2, Len(s)) ELSE s
    IN  /\ u # ""
        /\ \A i \in 1..Len(u) : IsDigit(Ch(u, i))
        /\ (Len(u) > 1 => Ch(u, 1) # "0")

IsJsonString(s) ==
    /\ Len(s) >= 2
    /\ Ch(s, 1) = "\""
    /\ Ch(s, Len(s)) = "\""
    /\ \A i \in 2..(Len(s) - 1) : Ch(s, i) \notin {"\"", "\\", "\t", "\n", "\r"}

\* the pieces of an array's text between its top-level commas
RECURSIVE SplitElements(_, _, _, _)
SplitElements(s, i, start, quoted) ==
    IF i > Len(s) THEN <<SubSeq(s, start, Len(s))>>
    ELSE IF Ch(s, i) = "\"" THEN SplitElements(s, i + 1, start, ~quoted)
    ELSE IF Ch(s, i) = "," /\ ~quoted
         THEN <<SubSeq(s, start, i - 1)>> \o SplitElements(s, i + 1, i + 1, FALSE)
    ELSE SplitElements(s, i + 1, start, quoted)

JSONparseScalar(text) ==
    LET s == trim(text)
    IN  CASE s = "null" -> [threw |-> FALSE, v |-> Null]
          [] s \in {"true", "false"} -> [threw |-> FALSE, v |-> Bool(s)]
          [] IsJsonNumber(s) -> [threw |-> FALSE, v |-> Num(s)]
          [] IsJsonString(s) -> [threw |-> FALSE, v |-> Str(SubSeq(s, 2, Len(s) - 1))]
          [] Len(s) >= 2 /\ Ch(s, 1) = "{" /\ Ch(s, Len(s)) = "}"
               /\ trim(SubSeq(s, 2, Len(s) - 1)) = "" -> [threw |-> FALSE, v |-> Obj]
          [] OTHER -> [threw |-> TRUE, v |-> Undef]

JSONparse(text) ==
    LET s == trim(text)
    IN  IF Len(s) >= 2 /\ Ch(s, 1) = "[" /\ Ch(s, Len(s)) = "]"
        THEN LET inner == SubSeq(s, 2, Len(s) - 1)
                 parts == IF trim(inner) = "" THEN <<>>
                          ELSE SplitElements(inner, 1, 1, FALSE)
                 vals == [i \in 1..Len(parts) |-> JSONparseScalar(parts[i])]
             IN  IF \E i \in 1..Len(parts) : vals[i].threw
                 THEN [threw |-> TRUE, v |-> Undef]
                 ELSE [threw |-> FALSE, v |-> Arr([i \in 1..Len(parts) |-> vals[i].v])]
        ELSE JSONparseScalar(s)

(***************************************************************************)
(* isValidEmail: /^[^\s@]+@[^\s@]+\.[^\s@]+$/                              *)
(***************************************************************************)
\* [^\s@]+ matches the whole of s
NoSpaceNoAt(s) ==
    /\ s # ""
    /\ \A i \in 1..Len(s) : ~IsWs(Ch(s, i)) /\ Ch(s, i) # "@"

emailRegexTest(s) ==
    \E i \in 1..Len(s), j \in 1..Len(s) :
        /\ i < j
        /\ Ch(s, i) = "@"
        /\ Ch(s, j) = "."
        /\ NoSpaceNoAt(SubSeq(s, 1, i - 1))
        /\ NoSpaceNoAt(SubSeq(s, i + 1, j - 1))
        /\ NoSpaceNoAt(SubSeq(s, j + 1, Len(s)))

\* email is the handler's local: a string, or "" for undefined
isValidEmail(email) ==
    IF email = "" THEN FALSE ELSE emailRegexTest(email)

(***************************************************************************)
(* The backing document data/subscribers.json.                             *)
(*   kind "absent":  no file                                               *)
(*   kind "corrupt": a file whose text JSON.parse rejects                  *)
(*   kind "doc":     a file holding {subscribers, last_updated, version}   *)
(* A subscriber is [email, countries, created_at, active, updated_at];     *)
(* countries is a JavaScript value, the timestamps are strings and         *)
(* updated_at = "" stands for an absent field. JSON.stringify followed by  *)
(* JSON.parse gives back every value such a document holds (strings,       *)
(* numbers, booleans, null, arrays of them), so the document is kept in    *)
(* its parsed form.                                                        *)
(***************************************************************************)
AbsentFile == [kind |-> "absent", subscribers |-> <<>>, last_updated |-> ""]
CorruptFile == [kind |-> "corrupt", subscribers |-> <<>>, last_updated |-> ""]
Document(subs, t) == [kind |-> "doc", subscribers |-> subs, last_updated |-> t]

\* new Date().toISOString() at tick n of the clock
toISOString(n) == "T" \o ToString(n)

\* the elements the spread [...v] yields; v is an array or a string
Spread(v) ==
    IF v.t = "array" THEN v.a
    ELSE [i \in 1..Len(v.s) |-> Str(Ch(v.s, i))]

Iterable(v) == v.t \in {"array", "string"}

\* [...new Set(seq)]: the first occurrence of each element, in order
RECURSIVE SetOf(_)
SetOf(seq) ==
    IF seq = <<>> THEN <<>>
    ELSE LET init == SetOf(SubSeq(seq, 1, Len(seq) - 1))
             x == seq[Len(seq)]
         IN  IF \E i \in 1..Len(init) : init[i] = x
             THEN init
             ELSE Append(init, x)

\* existing.countries = [...new Set([...existing.countries, ...newSubscriber.countries])]
MergeCountriesReplace(existing, added) == Arr(SetOf(Spread(added)))
MergeCountries(existing, added) == Arr(SetOf(Spread(existing) \o Spread(added)))

\* s.email.toLowerCase() === newSubscriber.email.toLowerCase()
SameEmailExact(a, b) == a = b
SameEmail(a, b) == toLowerCase(a) = toLowerCase(b)

\* data.subscribers.findIndex(...): the first matching index, 0 for -1
findIndex(subs, email) ==
    IF \E i \in 1..Len(subs) : SameEmail(subs[i].email, email)
    THEN CHOOSE i \in 1..Len(subs) :
             /\ SameEmail(subs[i].email, email)
             /\ \A j \in 1..(i - 1) : ~SameEmail(subs[j].email, email)
    ELSE 0

\* the branch existingIndex >= 0: the record existing after the merge
MergedRecordResetCreated(existing, newSubscriber, t) ==
    [existing EXCEPT !.countries = MergeCountries(existing.countries, newSubscriber.countries),
                     !.created_at = newSubscriber.created_at,
                     !.active = TRUE,
                     !.updated_at = t]
MergedRecordKeepInactive(existing, newSubscriber, t) ==
    [existing EXCEPT !.countries = MergeCountries(existing.countries, newSubscriber.countries),
                     !.updated_at = t]
MergedRecord(existing, newSubscriber, t) ==
    [existing EXCEPT !.countries = MergeCountries(existing.countries, newSubscriber.countries),
                     !.active = TRUE,
                     !.updated_at = t]

\* the subscriber sequence after lines 124-135 (when the merge does not throw)
UpdateSubscribersDropOthers(subs, newSubscriber, t) ==
    LET existingIndex == findIndex(subs, newSubscriber.email)
    IN  IF existingIndex > 0
        THEN <<MergedRecord(subs[existingIndex], newSubscriber, t)>>
        ELSE <<newSubscriber>>
UpdateSubscribers(subs, newSubscriber, t) ==
    LET existingIndex == findIndex(subs, newSubscriber.email)
    IN  IF existingIndex > 0
        THEN [subs EXCEPT ![existingIndex] = MergedRecord(subs[existingIndex], newSubscriber, t)]
        ELSE Append(subs, newSubscriber)

\* the merge throws TypeError when either countries value cannot be spread
MergeThrows(subs, newSubscriber) ==
    LET existingIndex == findIndex(subs, newSubscriber.email)
    IN  /\ existingIndex > 0
        /\ ~(Iterable(subs[existingIndex].countries) /\ Iterable(newSubscriber.countries))

(***************************************************************************)
(* saveSubscriber. The file system may fail a call: fault names the call   *)
(* that throws if it is reached.                                           *)
(*   "read"          readFileSync throws                                   *)
(*   "mkdir"         mkdirSync throws                                      *)
(*   "write_open"    writeFileSync throws before the file is opened        *)
(*   "write_partial" writeFileSync throws after the file was truncated     *)
(*                   and before all of the text was written; what is left  *)
(*                   is a proper prefix of the text, which does not parse  *)
(* The result: saved is the returned boolean, file and dirExists the file  *)
(* system afterwards, read / written whether readFileSync was called and   *)
(* writeFileSync completed, writeFailed whether writeFileSync threw.       *)
(***************************************************************************)
Faults == {"none", "read", "mkdir", "write_open", "write_partial"}

SaveResult(saved, f, dir, read, written, writeFailed) ==
    [saved |-> saved, file |-> f, dirExists |-> dir, read |-> read,
     written |-> written, writeFailed |-> writeFailed]

\* what a writeFileSync that throws leaves of the file f
FailedWrite(f, fault) == IF fault = "write_partial" THEN CorruptFile ELSE f

\* data = JSON.parse(rawData), or the default document when there is no file
LoadDataResetOnCorrupt(f) ==
    IF f.kind = "corrupt" THEN [threw |-> FALSE, subscribers |-> <<>>]
    ELSE [threw |-> FALSE, subscribers |-> f.subscribers]
LoadData(f) ==
    IF f.kind = "corrupt" THEN [threw |-> TRUE, subscribers |-> <<>>]
    ELSE [threw |-> FALSE, subscribers |-> f.subscribers]

saveSubscriber(f, dir, newSubscriber, n, fault) ==
    LET exists == f.kind # "absent"
        loaded == LoadData(f)
        data == Document(UpdateSubscribers(loaded.subscribers, newSubscriber,
                                           toISOString(n)),
                         toISOString(n))
    IN  IF exists /\ fault = "read"
          THEN SaveResult(FALSE, f, dir, TRUE, FALSE, FALSE)
        ELSE IF loaded.threw
          THEN SaveResult(FALSE, f, dir, TRUE, FALSE, FALSE)
        ELSE IF MergeThrows(loaded.subscribers, newSubscriber)
          THEN SaveResult(FALSE, f, dir, exists, FALSE, FALSE)
        ELSE IF ~dir /\ fault = "mkdir"
          THEN SaveResult(FALSE, f, dir, exists, FALSE, FALSE)
        ELSE IF fault \in {"write_open", "write_partial"}
          THEN SaveResult(FALSE, FailedWrite(f, fault), TRUE, exists, FALSE, TRUE)
        ELSE IF newSubscriber.countries.t # "array"
          \* newSubscriber.countries.join is not a function: thrown after the write
          THEN SaveResult(FALSE, data, TRUE, exists, TRUE, FALSE)
        ELSE SaveResult(TRUE, data, TRUE, exists, TRUE, FALSE)

(***************************************************************************)
(* Requests. event.body is not kept as text: wire tells what the text is   *)
(* and email, countries, created_at are the values of its fields.          *)
(*   "none"      no body                                                   *)
(*   "json"      the JSON text of an object with these fields              *)
(*   "json-null" the JSON text null                                        *)
(*   "form"      URL-encoded pairs (every field a string, or missing)      *)
(*   "malformed" a text that is neither JSON nor holds these keys          *)
(* created_at is a string, "" when the field is missing.                   *)
(***************************************************************************)
EmptyBody == [threw |-> FALSE, null |-> FALSE, email |-> Undef, countries |-> Undef,
              created_at |-> ""]
ThrownBody == [EmptyBody EXCEPT !.threw = TRUE]
FieldsOf(event) == [EmptyBody EXCEPT !.email = event.email,
                                     !.countries = event.countries,
                                     !.created_at = event.created_at]

\* JSON.parse(body)
ParseJsonBody(event) ==
    CASE event.wire = "json" -> FieldsOf(event)
      [] event.wire = "json-null" -> [EmptyBody EXCEPT !.null = TRUE]
      [] OTHER -> ThrownBody

parseBodyPermissive(event) ==
    IF event.wire = "none" THEN EmptyBody
    ELSE IF includes(event.contentType, "application/x-www-form-urlencoded")
              /\ ~includes(event.contentType, "application/json")
      THEN IF event.wire = "form" THEN FieldsOf(event) ELSE EmptyBody
    ELSE IF ParseJsonBody(event).threw THEN EmptyBody
    ELSE ParseJsonBody(event)
parseBody(event) ==
    IF event.wire = "none" THEN EmptyBody
    ELSE IF includes(event.contentType, "application/json") THEN ParseJsonBody(event)
    ELSE IF includes(event.contentType, "application/x-www-form-urlencoded")
      \* new URLSearchParams(body): a JSON or malformed text gives none of the keys
      THEN IF event.wire = "form" THEN FieldsOf(event) ELSE EmptyBody
    ELSE IF ParseJsonBody(event).threw THEN EmptyBody
    ELSE ParseJsonBody(event)

\* countriesRaw.map(c => c.toUpperCase()), one element
ElementUpper(c) == Str(toUpperCase(c.s))

\* countriesRaw.split(',').map(c => c.trim().toUpperCase()).filter(Boolean)
SplitCountriesNoFilter(raw) ==
    LET parts == split(raw)
    IN  Arr([i \in 1..Len(parts) |-> Str(toUpperCase(trim(parts[i])))])
SplitCountries(raw) ==
    LET parts == split(raw)
        norm == [i \in 1..Len(parts) |-> Str(toUpperCase(trim(parts[i])))]
    IN  Arr(SelectSeq(norm, LAMBDA c : c.s # ""))

\* lines 28-37: the countries value built from body.countries
normalizeCountries(countriesRaw) ==
    IF countriesRaw.t = "string"
    THEN IF JSONparse(countriesRaw.s).threw
         THEN [threw |-> FALSE, v |-> SplitCountries(countriesRaw.s)]
         ELSE [threw |-> FALSE, v |-> JSONparse(countriesRaw.s).v]
    ELSE IF countriesRaw.t = "array"
    THEN IF \E i \in 1..Len(countriesRaw.a) : countriesRaw.a[i].t # "string"
         \* c.toUpperCase is not a function
         THEN [threw |-> TRUE, v |-> Undef]
         ELSE [threw |-> FALSE,
               v |-> Arr([i \in 1..Len(countriesRaw.a) |-> ElementUpper(countriesRaw.a[i])])]
    ELSE [threw |-> FALSE, v |-> Arr(<<>>)]

\* !countries || countries.length === 0
NoCountries(countries) ==
    \/ ~Truthy(countries)
    \/ countries.t = "array" /\ Len(countries.a) = 0

\* body.email?.trim().toLowerCase() throws for a value without trim
EmailThrows(v) == v.t \notin {"undefined", "null", "string"}
\* "" stands for undefined
NormalEmail(v) == IF v.t = "string" THEN toLowerCase(trim(v.s)) ELSE ""

(***************************************************************************)
(* exports.handler, lines 7-44: the checks made before the store is        *)
(* called. statusCode 0 when the request passes them, with the normalized  *)
(* email, the countries and body.created_at ("" when missing or falsy).    *)
(***************************************************************************)
Checked(statusCode, error, email, countries, createdAt) ==
    [statusCode |-> statusCode, error |-> error, email |-> email,
     countries |-> countries, created_at |-> createdAt]

\* lines 14-44, for a POST
validatePost(event) ==
         LET body == parseBody(event)
             email == NormalEmail(body.email)
             countries == normalizeCountries(body.countries)
         IN  IF body.threw \/ body.null \/ EmailThrows(body.email)
               THEN Checked(500, "Internal server error", "", Undef, "")
             ELSE IF email = "" \/ ~isValidEmail(email)
               THEN Checked(400, "Invalid email address", "", Undef, "")
             ELSE IF countries.threw
               THEN Checked(500, "Internal server error", email, Undef, "")
             ELSE IF NoCountries(countries.v)
               THEN Checked(400, "At least one country must be selected", email, Undef, "")
             ELSE Checked(0, "", email, countries.v, body.created_at)

validateParseFirst(event) ==
    IF parseBody(event).threw THEN Checked(500, "Internal server error", "", Undef, "")
    ELSE IF event.httpMethod # "POST" THEN Checked(405, "Method not allowed", "", Undef, "")
    ELSE validatePost(event)
validate(event) ==
    IF event.httpMethod # "POST" THEN Checked(405, "Method not allowed", "", Undef, "")
    ELSE validatePost(event)

(***************************************************************************)
(* exports.handler, lines 46-75: the response and the file system after    *)
(* the request.                                                            *)
(***************************************************************************)
NoSubscriber == [email |-> "", countries |-> Undef, created_at |-> "",
                 active |-> FALSE, updated_at |-> ""]

\* a response that did not reach saveSubscriber
Reply(statusCode, error, f, dir) ==
    [statusCode |-> statusCode, error |-> error, email |-> "", countries |-> Undef,
     file |-> f, dirExists |-> dir, called |-> FALSE, subscriber |-> NoSubscriber,
     read |-> FALSE, written |-> FALSE, writeFailed |-> FALSE]

\* build the subscriber, save it, answer 200 or 500
Subscribe(email, countries, createdAt, f, dir, n, fault) ==
    LET subscriber == [email |-> email, countries |-> countries,
                       created_at |-> createdAt, active |-> TRUE, updated_at |-> ""]
        r == saveSubscriber(f, dir, subscriber, n, fault)
    IN  [statusCode |-> IF r.saved THEN 200 ELSE 500,
         error |-> IF r.saved THEN "" ELSE "Failed to save subscription",
         email |-> IF r.saved THEN email ELSE "",
         countries |-> IF r.saved THEN countries ELSE Undef,
         file |-> r.file, dirExists |-> r.dirExists, called |-> TRUE,
         subscriber |-> subscriber, read |-> r.read, written |-> r.written,
         writeFailed |-> r.writeFailed]

(***************************************************************************)
(* The inputs of the model.                                                *)
(***************************************************************************)
Event(method, contentType, wire, email, countries, createdAt) ==
    [httpMethod |-> method, contentType |-> contentType, wire |-> wire,
     email |-> email, countries |-> countries, created_at |-> createdAt]

NoEvent == Event("", "", "none", Undef, Undef, "")

JsonType == "application/json"
FormType == "application/x-www-form-urlencoded"

\* countries inputs that pass the handler's checks
AcceptedCountries ==
    { Arr(<<Str("NO")>>), Arr(<<Str("no"), Str("SE")>>), Arr(<<Str("NO"), Str("no")>>),
      Arr(<<Str(" se")>>), Str("no, se"), Str("[\"de\"]"), Str("5"), Str("\"NO\"") }

\* countries inputs that yield no country code
EmptyCountries ==
    { Undef, Arr(<<>>), Str(""), Str(" , ,"), Str("[]"), Str("null"), Num("5") }

\* email inputs that are not an address
BadEmails ==
    { Undef, Null, Str(""), Str("  "), Str("bad"), Str("a@b"), Str("a b@c.d"),
      Num("123"), Bool("false") }

Requests ==
    {Event("POST", JsonType, "json", Str("A@b.c "), c, "") :
        c \in AcceptedCountries \cup EmptyCountries \cup {Arr(<<Num("1")>>)}}
    \cup {Event("POST", JsonType, "json", e, Arr(<<Str("NO")>>), "") : e \in BadEmails}
    \cup { Event("POST", JsonType, "json", Str("c@d.e"), Arr(<<Str("fi")>>), "C9"),
           Event("POST", FormType, "form", Str("a@b.c"), Str("[\"NO\",\"se\"]"), ""),
           Event("POST", FormType, "form", Str("a@b.c"), Str(""), ""),
           Event("POST", "text/plain", "json", Str("a@b.c"), Arr(<<Str("NO")>>), ""),
           Event("POST", JsonType, "none", Undef, Undef, ""),
           Event("POST", JsonType, "malformed", Undef, Undef, ""),
           Event("POST", JsonType, "json-null", Undef, Undef, ""),
           Event("POST", FormType, "malformed", Undef, Undef, ""),
           Event("POST", "", "malformed", Undef, Undef, ""),
           Event("POST", "", "json-null", Undef, Undef, ""),
           Event("POST", "", "form", Str("a@b.c"), Str("FI"), ""),
           Event("POST", "text/plain", "malformed", Undef, Undef, ""),
           Event("GET", JsonType, "json", Str("a@b.c"), Arr(<<Str("NO")>>), ""),
           Event("GET", JsonType, "malformed", Undef, Undef, ""),
           Event("PUT", "", "json-null", Undef, Undef, "") }

\* validate, evaluated once for every request of the model
Validated == [event \in Requests |-> validate(event)]

handler(event, f, dir, n, fault) ==
    LET c == Validated[event]
    IN  IF c.statusCode # 0 THEN Reply(c.statusCode, c.error, f, dir)
        ELSE Subscribe(c.email, c.countries,
                       IF c.created_at # "" THEN c.created_at ELSE toISOString(n),
                       f, dir, n, fault)

\* the emails the requests subscribe
TrackedEmails == {"a@b.c", "c@d.e"}

\* a record written by hand: mixed-case email, inactive
OldRecord == [email |-> "A@b.c", countries |-> Arr(<<Str("DE")>>),
              created_at |-> "T0", active |-> FALSE, updated_at |-> ""]

InitialFiles ==
    {AbsentFile, CorruptFile, Document(<<>>, "T0"), Document(<<OldRecord>>, "T0")}

(***************************************************************************)
(* State.                                                                  *)
(*   file, dirExists  data/subscribers.json and its directory              *)
(*   now              the clock, one tick per request                      *)
(*   last             the request handled last, the file before it, and    *)
(*                    its response with what saveSubscriber did            *)
(*   accepted         per email, the last one or two subscriptions         *)
(*                    answered 200 with no other request for that email    *)
(*                    between them: run is how many (0..2), S1 and S2      *)
(*                    their country sets, B1 and B2 the countries the      *)
(*                    record held before each of them                      *)
(*   subscribed       the emails, in lowercase, in the order in which each *)
(*                    was first subscribed with success (the records of    *)
(*                    the initial document count as subscribed, in order)  *)
(*   inv              the invocations that run concurrently on the same    *)
(*                    file, each in its own process: where each one is,    *)
(*                    the subscriber it saves, the data it holds in memory *)
(*                    and the ticks of its read and of its write           *)
(*   page             the subscription page in the browser: the elements   *)
(*                    the script reads and writes, the requests it has in  *)
(*                    flight, and what the last submit event found         *)
(*   catalog          the countries configuration, the response of the     *)
(*                    countries endpoint to a GET and the list the page    *)
(*                    keeps after loadCountries                            *)
(***************************************************************************)
VARIABLES file, dirExists, now, last, accepted, subscribed, inv, page, catalog

vars == <<file, dirExists, now, last, accepted, subscribed, inv, page, catalog>>

\* the countries endpoint before any request, with no configuration file
NoCatalog ==
    [config |-> [kind |-> "absent", countries |-> <<>>],
     phase |-> "start", statusCode |-> 0, body |-> <<>>, countries |-> <<>>]

\* how many invocations run concurrently
MaxInvocations == 3

Invocations == 1..MaxInvocations

\* an invocation that has not started
IdleInvocation ==
    [pc |-> "idle", subscriber |-> NoSubscriber, data |-> AbsentFile,
     statusCode |-> 0, readAt |-> 0, wroteAt |-> 0]

\* what a submit event found and did; fired is false before the first one
NoSubmit ==
    [fired |-> FALSE, botField |-> "", emailValue |-> "", checked |-> {},
     emailError |-> "", countriesError |-> "", sent |-> FALSE]

\* the hidden class of the form and of the two messages in the markup of
\* the page (index.html), and its submit button: the form shown, both
\* messages hidden, the button enabled
InitialMarkup ==
    [formHidden |-> FALSE, successHidden |-> TRUE, errorHidden |-> TRUE,
     submitDisabled |-> FALSE]

\* the page when the script starts: the markup, the fields empty, the
\* button enabled, nothing in flight
InitialPage ==
    [ready |-> "loading",
     formHidden |-> InitialMarkup.formHidden,
     successHidden |-> InitialMarkup.successHidden,
     errorHidden |-> InitialMarkup.errorHidden,
     submitDisabled |-> InitialMarkup.submitDisabled,
     btnTextHidden |-> FALSE, btnLoadingHidden |-> TRUE,
     emailValue |-> "", emailError |-> "", emailInvalid |-> FALSE,
     checked |-> {}, countriesError |-> "", botField |-> "", errorDetails |-> "",
     inFlight |-> <<>>, submits |-> 0, lastEvent |-> "load", lastSubmit |-> NoSubmit]

\* the elements of a countries value, as a set
CountrySet(countries) ==
    IF Iterable(countries)
    THEN {Spread(countries)[i] : i \in 1..Len(Spread(countries))}
    ELSE {}

\* the countries the file holds for an email, as a set
StoredSet(f, email) ==
    IF f.kind = "doc" /\ findIndex(f.subscribers, email) > 0
    THEN CountrySet(f.subscribers[findIndex(f.subscribers, email)].countries)
    ELSE {}

NoRun == [run |-> 0, B1 |-> {}, S1 |-> {}, B2 |-> {}, S2 |-> {}]

\* the emails of the records of f, in lowercase, in order
EmailsOf(f) == [i \in 1..Len(f.subscribers) |-> toLowerCase(f.subscribers[i].email)]

\* subscribed after a response: a 200 for an email not yet in it appends the email
FirstSubscribed(old, r) ==
    IF r.statusCode = 200 /\ \A i \in 1..Len(old) : old[i] # r.email
    THEN Append(old, r.email)
    ELSE old

Init ==
    /\ file \in InitialFiles
    /\ dirExists \in BOOLEAN
    /\ (file.kind # "absent" => dirExists)
    /\ now = 1
    /\ last = [event |-> NoEvent, before |-> file, response |-> Reply(0, "", file, dirExists)]
    /\ accepted = [e \in TrackedEmails |-> NoRun]
    /\ subscribed = EmailsOf(file)
    /\ inv = [i \in Invocations |-> IdleInvocation]
    /\ page = InitialPage
    /\ catalog = NoCatalog

\* the email a handled request was for: the normalized address once it passed validation
RequestEmail(event, r) ==
    IF r.called \/ r.error = "At least one country must be selected"
    THEN Validated[event].email
    ELSE ""

Track(old, event, r, f) ==
    [e \in TrackedEmails |->
        IF RequestEmail(event, r) # e THEN old[e]
        ELSE IF r.statusCode # 200 THEN NoRun
        ELSE [run |-> IF old[e].run = 0 THEN 1 ELSE 2,
              B1 |-> old[e].B2, S1 |-> old[e].S2,
              B2 |-> StoredSet(f, e), S2 |-> CountrySet(r.subscriber.countries)]]

\* a fault is injected only into a call the request makes
FaultReachable(event, fault) ==
    CASE fault = "none" -> TRUE
      [] fault = "read" -> Validated[event].statusCode = 0 /\ file.kind # "absent"
      [] fault = "mkdir" -> Validated[event].statusCode = 0 /\ ~dirExists
      [] OTHER -> Validated[event].statusCode = 0 /\ file.kind # "corrupt"

\* one invocation of exports.handler, from the request to the response
Handle(event, fault) ==
    /\ now <= MaxRequests
    /\ FaultReachable(event, fault)
    /\ \E r \in {handler(event, file, dirExists, now, fault)} :
           /\ file' = r.file
           /\ dirExists' = r.dirExists
           /\ last' = [event |-> event, before |-> file, response |-> r]
           /\ accepted' = Track(accepted, event, r, file)
           /\ subscribed' = FirstSubscribed(subscribed, r)
    /\ now' = now + 1
    /\ UNCHANGED <<inv, page, catalog>>

Next == \E event \in Requests, fault \in Faults : Handle(event, fault)

Spec == Init /\ [][Next]_vars

(***************************************************************************)
(* Properties.                                                             *)
(***************************************************************************)
Handled == last.response.statusCode # 0

\* the number of records of f for an email, compared in lowercase
RecordsFor(f, email) ==
    Cardinality({i \in 1..Len(f.subscribers) :
                     toLowerCase(f.subscribers[i].email) = toLowerCase(email)})

\* the last request merged into the record at this index of the file before it (0: no merge)
MergedIndex ==
    IF last.response.called /\ last.response.written /\ last.before.kind = "doc"
    THEN findIndex(last.before.subscribers, last.response.subscriber.email)
    ELSE 0

\* C1: after any sequence of saves executed one at a time, every persisted
\* document holds at most one subscriber record per lowercase email.
C1_OneRecordPerEmail ==
    file.kind = "doc" =>
        \A i, j \in 1..Len(file.subscribers) :
            toLowerCase(file.subscribers[i].email) = toLowerCase(file.subscribers[j].email)
                => i = j

\* a save for an email the document already held, in another case, was written
C1_Witness ==
    /\ MergedIndex > 0
    /\ last.before.subscribers[MergedIndex].email # last.response.subscriber.email
    /\ Len(file.subscribers) >= 2

\* C2 as stated: after two accepted subscriptions for one email with country
\* sets S1 then S2 and no other request for that email in between, the store
\* holds exactly one record for the email and its countries are S1 union S2.
C2_Original ==
    \A e \in TrackedEmails :
        (last.response.statusCode = 200 /\ last.response.email = e /\ accepted[e].run = 2)
            => /\ file.kind = "doc"
               /\ RecordsFor(file, e) = 1
               /\ StoredSet(file, e) = accepted[e].S1 \cup accepted[e].S2

\* C2 amended: the record's countries are S1 union S2 together with the
\* countries the record held before the first of the two subscriptions
\* (none when the first one created the record); repeating a subscription
\* changes neither the number of records nor the record's country set.
C2_UnionWithPrior ==
    \A e \in TrackedEmails :
        (last.response.statusCode = 200 /\ last.response.email = e /\ accepted[e].run = 2)
            => /\ file.kind = "doc"
               /\ RecordsFor(file, e) = 1
               /\ StoredSet(file, e) = accepted[e].B1 \cup accepted[e].S1 \cup accepted[e].S2
               /\ (accepted[e].S2 = accepted[e].S1 =>
                       /\ Len(file.subscribers) = Len(last.before.subscribers)
                       /\ StoredSet(file, e) = StoredSet(last.before, e))

\* the second of two accepted subscriptions {A,B} then {B,C}, the first one creating the record
C2_Witness ==
    \E e \in TrackedEmails :
        /\ last.response.statusCode = 200
        /\ last.response.email = e
        /\ accepted[e].run = 2
        /\ accepted[e].B1 = {}
        /\ accepted[e].S1 \cap accepted[e].S2 # {}
        /\ accepted[e].S1 \ accepted[e].S2 # {}
        /\ accepted[e].S2 \ accepted[e].S1 # {}

C4_AllOrNothing ==
    Handled =>
        /\ (last.response.statusCode = 200 =>
               /\ file.kind = "doc"
               /\ RecordsFor(file, last.response.email) >= 1
               /\ CountrySet(last.response.countries) \subseteq StoredSet(file, last.response.email))
        /\ (last.response.statusCode \in {400, 405, 500} => file = last.before)

\* C5: whenever saveSubscriber returns false because the write failed, the
\* backing document holds exactly the content it held before the call.
C5_FailedWriteKeepsContent ==
    (last.response.called /\ last.response.writeFailed) => file = last.before

\* C6: when the backing document exists and cannot be parsed, saveSubscriber
\* returns false, the endpoint answers 500 and the document is left as it was.
C6_ParseFailureIsAnError ==
    (last.response.called /\ last.before.kind = "corrupt") =>
        /\ last.response.statusCode = 500
        /\ last.response.error = "Failed to save subscription"
        /\ ~last.response.written
        /\ file = last.before

\* a valid subscription met an unparseable document
C6_Witness ==
    /\ last.response.called
    /\ last.before.kind = "corrupt"
    /\ last.response.statusCode = 500

\* a country code as the specification wants it: a trimmed, uppercase string
IsNormalCode(c) == c.t = "string" /\ c.s = toUpperCase(trim(c.s))

\* C7: every country code passed to the store or returned in a 200 response
\* is trimmed and uppercase, whatever the form of the countries input.
C7_CodesTrimmedUppercase ==
    last.response.called =>
        /\ last.response.subscriber.countries.t = "array"
        /\ \A i \in 1..Len(last.response.subscriber.countries.a) :
               IsNormalCode(last.response.subscriber.countries.a[i])

\* C8: in every persisted document each subscriber's countries are a
\* non-empty list of country-code strings in which no code occurs twice.
C8_CountriesFormASet ==
    file.kind = "doc" =>
        \A k \in 1..Len(file.subscribers) :
            LET c == file.subscribers[k].countries
            IN  /\ c.t = "array"
                /\ Len(c.a) > 0
                /\ \A i \in 1..Len(c.a) : c.a[i].t = "string"
                /\ \A i, j \in 1..Len(c.a) : c.a[i] = c.a[j] => i = j

\* the body of the last request, when it parsed to an object
LastBody == parseBody(last.event)
BodyParsed == last.event.httpMethod = "POST" /\ ~LastBody.threw /\ ~LastBody.null

\* an email value that is absent, empty or no address after trim and lowercase
NotAnAddress(v) ==
    \/ v.t # "string"
    \/ ~emailRegexTest(toLowerCase(trim(v.s)))

\* C9: every POST whose email is absent, empty or any value that is no
\* address is answered 400 'Invalid email address' and the store is not touched.
C9_BadEmailRejected ==
    (BodyParsed /\ NotAnAddress(LastBody.email)) =>
        /\ last.response.statusCode = 400
        /\ last.response.error = "Invalid email address"
        /\ ~last.response.called
        /\ file = last.before

\* the forms of the countries input that hold no country code
OnlyCommasAndSpace(s) == \A i \in 1..Len(s) : Ch(s, i) = "," \/ IsWs(Ch(s, i))
EmptyArrayText(s) ==
    /\ Len(trim(s)) >= 2
    /\ Ch(trim(s), 1) = "["
    /\ Ch(trim(s), Len(trim(s))) = "]"
    /\ trim(SubSeq(trim(s), 2, Len(trim(s)) - 1)) = ""
HoldsNoCode(v) ==
    \/ v.t = "undefined"
    \/ v.t = "array" /\ Len(v.a) = 0
    \/ v.t = "string" /\ (OnlyCommasAndSpace(v.s) \/ EmptyArrayText(v.s))

\* C10: every POST with a valid email whose countries input holds no country
\* code is answered 400 'At least one country must be selected' and the
\* store is unchanged.
C10_NoCountryRejected ==
    (BodyParsed /\ ~NotAnAddress(LastBody.email) /\ HoldsNoCode(LastBody.countries)) =>
        /\ last.response.statusCode = 400
        /\ last.response.error = "At least one country must be selected"
        /\ ~last.response.called
        /\ file = last.before

\* a string of only commas and whitespace was rejected while the store held a record
C10_Witness ==
    /\ BodyParsed
    /\ ~NotAnAddress(LastBody.email)
    /\ LastBody.countries.t = "string"
    /\ includes(LastBody.countries.s, ",")
    /\ OnlyCommasAndSpace(LastBody.countries.s)
    /\ last.response.statusCode = 400
    /\ file.kind = "doc"
    /\ Len(file.subscribers) > 0


\* C11: a request whose method is not POST is answered 405 'Method not
\* allowed' whatever its headers and body, without parsing the body and
\* without reading or writing the subscriber document.
C11_NonPostRejected ==
    (Handled /\ last.event.httpMethod # "POST") =>
        /\ last.response.statusCode = 405
        /\ last.response.error = "Method not allowed"
        /\ ~last.response.called
        /\ ~last.response.read
        /\ ~last.response.written
        /\ file = last.before

\* a GET carrying a body that JSON.parse rejects, declared application/json
C11_Witness ==
    /\ Handled
    /\ last.event.httpMethod = "GET"
    /\ last.event.wire = "malformed"
    /\ includes(last.event.contentType, "application/json")
    /\ last.response.statusCode = 405

\* the record the file holds for the email of the last response
LastRecord == file.subscribers[findIndex(file.subscribers, last.response.subscriber.email)]

\* C17: after a successful save the record of the email has active = true; a
\* merge into a record whose active flag was false sets it to true and sets
\* updated_at, an insert leaves updated_at absent.
C17_ActiveAfterSave ==
    last.response.statusCode = 200 =>
        /\ file.kind = "doc"
        /\ findIndex(file.subscribers, last.response.subscriber.email) > 0
        /\ LastRecord.active
        /\ (MergedIndex > 0 => /\ LastRecord.updated_at # ""
                               /\ LastRecord.updated_at = file.last_updated)
        /\ (MergedIndex = 0 => LastRecord.updated_at = "")

\* a merge into a record that was inactive
C17_Witness ==
    /\ last.response.statusCode = 200
    /\ MergedIndex > 0
    /\ ~last.before.subscribers[MergedIndex].active

\* C18: a malformed body declared as application/json yields 500 'Internal
\* server error'; the same body with a missing or unrecognised content type
\* is treated as an empty object and yields 400 'Invalid email address'; in
\* neither case is the store touched.
C18_ParsingByContentType ==
    (last.event.httpMethod = "POST" /\ last.event.wire = "malformed") =>
        /\ (includes(last.event.contentType, "application/json") =>
               /\ last.response.statusCode = 500
               /\ last.response.error = "Internal server error")
        /\ ((~includes(last.event.contentType, "application/json")
             /\ ~includes(last.event.contentType, "application/x-www-form-urlencoded")) =>
               /\ last.response.statusCode = 400
               /\ last.response.error = "Invalid email address")
        /\ ~last.response.called
        /\ file = last.before

\* a malformed body declared as application/json was answered 500
C18_Witness ==
    /\ last.event.httpMethod = "POST"
    /\ last.event.wire = "malformed"
    /\ includes(last.event.contentType, "application/json")
    /\ last.response.statusCode = 500
    /\ file.kind = "doc"


\* C16: under sequential saves the subscriber sequence only grows at its
\* end: a subscription for an email not yet present is appended as the last
\* record, the order of the records is the order in which each email was
\* first successfully subscribed, and no save removes or reorders a record.
C16_AppendOnly ==
    /\ (file.kind = "doc" => EmailsOf(file) = subscribed)
    /\ ((Handled /\ last.before.kind = "doc") =>
           /\ file.kind = "doc"
           /\ Len(file.subscribers) >= Len(last.before.subscribers)
           /\ \A i \in 1..Len(last.before.subscribers) :
                  file.subscribers[i].email = last.before.subscribers[i].email)
    /\ ((last.response.called /\ last.response.written /\ MergedIndex = 0) =>
           file.subscribers = Append(last.before.subscribers, last.response.subscriber))


(***************************************************************************)
(* Concurrent invocations. Every invocation is a process of its own, so    *)
(* the calls of one may fall between the calls of another. An invocation   *)
(* takes two steps on the file: it reads it (existsSync, readFileSync) and *)
(* changes the data in memory, then it writes the whole document back      *)
(* (writeFileSync). Each step is atomic; no call fails.                    *)
(***************************************************************************)
\* the requests the concurrent invocations are given
RaceRequests ==
    { Event("POST", JsonType, "json", Str("A@b.c "), Arr(<<Str("NO")>>), ""),
      Event("POST", JsonType, "json", Str("A@b.c "), Arr(<<Str("no"), Str("SE")>>), ""),
      Event("POST", JsonType, "json", Str("c@d.e"), Arr(<<Str("fi")>>), "C9"),
      Event("POST", JsonType, "json", Str("A@b.c "), Str("\"NO\""), ""),
      Event("GET", JsonType, "json", Str("a@b.c"), Arr(<<Str("NO")>>), "") }

\* an invocation that answered with statusCode
Answered(v, statusCode, n) == [v EXCEPT !.pc = "done", !.statusCode = statusCode, !.wroteAt = n]

\* lines 46-51 and 117-137: the subscriber is built, the file is read and
\* the data is changed in memory; 500 when the read or the merge throws
ReadStep(c, f, n) ==
    LET subscriber == [email |-> c.email, countries |-> c.countries,
                       created_at |-> IF c.created_at # "" THEN c.created_at
                                      ELSE toISOString(n),
                       active |-> TRUE, updated_at |-> ""]
        loaded == LoadData(f)
        started == [IdleInvocation EXCEPT !.subscriber = subscriber, !.readAt = n]
    IN  IF loaded.threw \/ MergeThrows(loaded.subscribers, subscriber)
        THEN Answered(started, 500, 0)
        ELSE [started EXCEPT !.pc = "read",
                             !.data = Document(UpdateSubscribers(loaded.subscribers,
                                                                 subscriber, toISOString(n)),
                                               toISOString(n))]

\* lines 144-147 and 55-75: after the write the log line throws when
\* countries has no join, and saveSubscriber returns false
WriteStep(v, n) ==
    Answered(v, IF v.subscriber.countries.t = "array" THEN 200 ELSE 500, n)

\* exports.handler up to the read of the file
Read(i, event) ==
    /\ inv[i].pc = "idle"
    /\ \A j \in 1..(i - 1) : inv[j].pc # "idle"
    /\ inv' = [inv EXCEPT ![i] =
                  IF Validated[event].statusCode # 0
                  THEN Answered(IdleInvocation, Validated[event].statusCode, 0)
                  ELSE ReadStep(Validated[event], file, now)]
    /\ now' = now + 1
    /\ UNCHANGED <<file, dirExists, last, accepted, subscribed, page, catalog>>

\* line 144: the file after invocation v wrote; writeFileSync replaces the
\* whole content f by the document v holds in memory
PersistedAppendToCurrent(f, v) ==
    IF /\ f.kind = "doc"
       /\ v.data.subscribers # <<>>
       /\ v.data.subscribers[Len(v.data.subscribers)] = v.subscriber
    THEN Document(Append(f.subscribers, v.subscriber), v.data.last_updated)
    ELSE v.data
Persisted(f, v) == v.data

\* mkdirSync when the directory is missing, writeFileSync, and the response
Write(i) ==
    /\ inv[i].pc = "read"
    /\ file' = Persisted(file, inv[i])
    /\ dirExists' = TRUE
    /\ inv' = [inv EXCEPT ![i] = WriteStep(inv[i], now)]
    /\ now' = now + 1
    /\ UNCHANGED <<last, accepted, subscribed, page, catalog>>

NextRace ==
    \/ \E i \in Invocations, event \in RaceRequests : Read(i, event)
    \/ \E i \in Invocations : Write(i)

\* the invocations start on no file or on a document with one record
InitRace ==
    /\ file \in {AbsentFile, Document(<<OldRecord>>, "T0")}
    /\ dirExists = (file.kind # "absent")
    /\ now = 1
    /\ last = [event |-> NoEvent, before |-> file, response |-> Reply(0, "", file, dirExists)]
    /\ accepted = [e \in TrackedEmails |-> NoRun]
    /\ subscribed = EmailsOf(file)
    /\ inv = [i \in Invocations |-> IdleInvocation]
    /\ page = InitialPage
    /\ catalog = NoCatalog

SpecRace == InitRace /\ [][NextRace]_vars

\* the file holds the subscription of invocation i: a record for its
\* email with every one of its countries
Holds(f, i) ==
    /\ f.kind = "doc"
    /\ findIndex(f.subscribers, inv[i].subscriber.email) > 0
    /\ CountrySet(inv[i].subscriber.countries) \subseteq StoredSet(f, inv[i].subscriber.email)

Succeeded(i) == inv[i].pc = "done" /\ inv[i].statusCode = 200

\* j read the file before i wrote it, and wrote it after i did
Overwrote(j, i) ==
    /\ inv[j].wroteAt > inv[i].wroteAt
    /\ inv[j].readAt < inv[i].wroteAt

\* C12: the read-modify-write cycle is not protected. Two concurrent
\* invocations that both read before either writes both answer 200 and the
\* final document lacks the subscription of the one that wrote first (the
\* witness); and a subscription answered 200 is missing from the document
\* only in that way: a later writer had read before the write (last writer
\* wins).
C12_LostOnlyToLaterWriter ==
    \A i \in Invocations :
        (Succeeded(i) /\ ~Holds(file, i)) =>
            \E j \in Invocations \ {i} : inv[j].pc = "done" /\ Overwrote(j, i)

\* both read before either wrote, both answered 200, the record of the first writer is gone
C12_Witness ==
    \E i, j \in Invocations :
        /\ Succeeded(i) /\ Succeeded(j)
        /\ inv[i].readAt < inv[j].readAt
        /\ inv[j].readAt < inv[i].wroteAt
        /\ inv[i].wroteAt < inv[j].wroteAt
        /\ \A k \in Invocations \ {i, j} : inv[k].pc = "idle"
        /\ findIndex(file.subscribers, inv[i].subscriber.email) = 0

\* the same race on one email: the countries the first writer added are gone
C12_LostCountries ==
    \E i, j \in Invocations :
        /\ Succeeded(i) /\ Succeeded(j)
        /\ inv[j].readAt < inv[i].wroteAt
        /\ inv[i].wroteAt < inv[j].wroteAt
        /\ \A k \in Invocations \ {i, j} : inv[k].pc = "idle"
        /\ findIndex(file.subscribers, inv[i].subscriber.email) > 0
        /\ ~Holds(file, i)

\* C19: however the reads and the whole-document writes of the
\* invocations interleave, every document persisted has at most one record
\* per lowercase email.
C19_RaceKeepsOneRecordPerEmail ==
    file.kind = "doc" =>
        \A a, b \in 1..Len(file.subscribers) :
            toLowerCase(file.subscribers[a].email) = toLowerCase(file.subscribers[b].email)
                => a = b

\* two invocations for one email both read a file without it, then both wrote
C19_Witness ==
    \E i, j \in Invocations :
        /\ i # j
        /\ inv[i].pc = "done" /\ inv[j].pc = "done"
        /\ inv[i].subscriber.email = inv[j].subscriber.email
        /\ inv[i].data.subscribers # <<>> /\ inv[j].data.subscribers # <<>>
        /\ inv[i].data.subscribers[Len(inv[i].data.subscribers)] = inv[i].subscriber
        /\ inv[j].data.subscribers[Len(inv[j].data.subscribers)] = inv[j].subscriber
        /\ inv[j].readAt < inv[i].wroteAt /\ inv[i].wroteAt < inv[j].wroteAt
        /\ file.kind = "doc"
        /\ Cardinality({a \in 1..Len(file.subscribers) :
                           file.subscribers[a].email = inv[i].subscriber.email}) = 1


(***************************************************************************)
(* The client form controller (web/script.js). page holds the state of the *)
(* elements: the hidden class of the form and of the two messages, the     *)
(* submit button, the values of the fields and the error texts. inFlight   *)
(* is the payloads of the fetch calls not yet settled. submits counts the  *)
(* submit events, lastEvent names the last event handled and lastSubmit    *)
(* keeps the fields as the last submit event found them and whether it     *)
(* called fetch.                                                           *)
(***************************************************************************)
\* how many submit events are followed
MaxSubmits == 3

\* CONFIG.minCountries
minCountries == 1

\* the checkboxes loadCountries renders
Rendered == {"NO", "SE"}

\* what is typed into the email field
EmailTexts == {"", "bad", "a@b.c", " c@d.e "}

clearEmailError(p) == [p EXCEPT !.emailError = "", !.emailInvalid = FALSE]

showEmailError(p, message) == [p EXCEPT !.emailError = message, !.emailInvalid = TRUE]

\* validateEmail: the result and the page with the error text set or cleared
validateEmail(p) ==
    LET email == trim(p.emailValue)
    IN  IF email = ""
          THEN [ok |-> FALSE, page |-> showEmailError(p, "Email address is required")]
        ELSE IF ~emailRegexTest(email)
          THEN [ok |-> FALSE, page |-> showEmailError(p, "Please enter a valid email address")]
        ELSE [ok |-> TRUE, page |-> clearEmailError(p)]

getSelectedCountries(p) == p.checked

validateCountriesAny(p) ==
    [ok |-> TRUE, page |-> [p EXCEPT !.countriesError = ""]]
validateCountries(p) ==
    IF Cardinality(getSelectedCountries(p)) < minCountries
    THEN [ok |-> FALSE,
          page |-> [p EXCEPT !.countriesError = "Please select at least one country"]]
    ELSE [ok |-> TRUE, page |-> [p EXCEPT !.countriesError = ""]]

handleCountryChange(p) ==
    IF Cardinality(getSelectedCountries(p)) >= minCountries
    THEN [p EXCEPT !.countriesError = ""]
    ELSE p

setAllCountries(p, selected) ==
    IF selected
    THEN [p EXCEPT !.checked = Rendered, !.countriesError = ""]
    ELSE [p EXCEPT !.checked = {}]

setSubmitLoading(p, loading) ==
    [p EXCEPT !.submitDisabled = loading,
              !.btnTextHidden = loading,
              !.btnLoadingHidden = ~loading]

showSuccessKeepForm(p) ==
    [p EXCEPT !.errorHidden = TRUE, !.successHidden = FALSE]
showSuccess(p) ==
    [p EXCEPT !.formHidden = TRUE, !.errorHidden = TRUE, !.successHidden = FALSE]

showError(p, message) ==
    [p EXCEPT !.formHidden = TRUE, !.successHidden = TRUE,
              !.errorDetails = message, !.errorHidden = FALSE]

\* resetForm; form.reset() gives every control of the form its default
\* value, and botField is what the honeypot field holds afterwards
resetForm(p, botField) ==
    setAllCountries(
        [clearEmailError(p) EXCEPT !.emailValue = "", !.checked = {},
                                   !.botField = botField,
                                   !.formHidden = FALSE, !.successHidden = TRUE,
                                   !.errorHidden = TRUE, !.countriesError = ""],
        FALSE)

\* the payload of the request to /.netlify/functions/subscribe
Payload(p) == [email |-> trim(p.emailValue), countries |-> getSelectedCountries(p)]

\* the page q a submit event on the page p leaves, with the record of the event
Submitted(q, p, sent) ==
    [q EXCEPT !.submits = p.submits + 1,
              !.lastEvent = "submit",
              !.lastSubmit = [fired |-> TRUE, botField |-> p.botField,
                              emailValue |-> p.emailValue, checked |-> p.checked,
                              emailError |-> p.emailError,
                              countriesError |-> p.countriesError, sent |-> sent]]

\* handleSubmit up to the await of fetch
handleSubmitValidateFirst(p) ==
    LET e == validateEmail(p)
        c == validateCountries(e.page)
    IN  IF ~e.ok \/ ~c.ok THEN Submitted(c.page, p, FALSE)
        ELSE IF p.botField # "" THEN Submitted(showSuccess(c.page), p, FALSE)
        ELSE LET loading == setSubmitLoading(c.page, TRUE)
             IN  Submitted([loading EXCEPT !.inFlight = Append(@, Payload(loading))], p, TRUE)
handleSubmit(p) ==
    LET e == validateEmail(p)
        c == validateCountries(e.page)
    IN  IF p.botField # "" THEN Submitted(showSuccess(p), p, FALSE)
        ELSE IF ~e.ok \/ ~c.ok THEN Submitted(c.page, p, FALSE)
        ELSE LET loading == setSubmitLoading(c.page, TRUE)
             IN  Submitted([loading EXCEPT !.inFlight = Append(@, Payload(loading))], p, TRUE)

\* handleSubmit after the await: outcome is "ok" (response.ok), "status"
\* (a response that is not ok) or "network" (fetch rejected)
Outcomes == {"ok", "status", "network"}

SettledEnableOnSuccess(p, outcome) ==
    LET shown == CASE outcome = "ok" -> setSubmitLoading(showSuccess(p), FALSE)
                   [] outcome = "status" -> showError(p, "Submission failed")
                   [] OTHER -> showError(p, "Failed to submit. Please try again.")
    IN  [shown EXCEPT !.inFlight = Tail(@), !.lastEvent = "settle"]
Settled(p, outcome) ==
    LET shown == CASE outcome = "ok" -> showSuccess(p)
                   [] outcome = "status" -> showError(p, "Submission failed")
                   [] OTHER -> showError(p, "Failed to submit. Please try again.")
    IN  [setSubmitLoading(shown, FALSE) EXCEPT !.inFlight = Tail(@),
                                               !.lastEvent = "settle"]

FormVisible(p) == ~p.formHidden

\* init: loadCountries, then setupEventListeners; when loadCountries throws
\* no listener is installed
PageInit(loaded) ==
    /\ page.ready = "loading"
    /\ page' = [page EXCEPT !.ready = IF loaded THEN "ready" ELSE "failed",
                            !.lastEvent = "init"]

\* the user types into the email field ('input': clearEmailError)
TypeEmail(text) ==
    /\ page.ready = "ready" /\ FormVisible(page)
    /\ page' = [clearEmailError(page) EXCEPT !.emailValue = text, !.lastEvent = "input"]

\* the email field loses the focus ('blur': validateEmail)
BlurEmail ==
    /\ page.ready = "ready" /\ FormVisible(page)
    /\ page' = [validateEmail(page).page EXCEPT !.lastEvent = "blur"]

\* a checkbox is clicked ('change': handleCountryChange)
ToggleCountry(code) ==
    /\ page.ready = "ready" /\ FormVisible(page)
    /\ page' = [handleCountryChange(
                    [page EXCEPT !.checked = IF code \in @ THEN @ \ {code}
                                             ELSE @ \cup {code}])
                EXCEPT !.lastEvent = "change"]

\* select all / select none
SelectAll(selected) ==
    /\ page.ready = "ready" /\ FormVisible(page)
    /\ page' = [setAllCountries(page, selected) EXCEPT !.lastEvent = "select"]

\* a script fills the honeypot field, which no user sees
FillBotField ==
    /\ page.ready = "ready" /\ FormVisible(page)
    /\ page.botField = ""
    /\ page' = [page EXCEPT !.botField = "spam", !.lastEvent = "bot"]

\* the submit event: the form is shown and its button is enabled
Submit ==
    /\ page.ready = "ready" /\ FormVisible(page)
    /\ ~page.submitDisabled
    /\ page.submits < MaxSubmits
    /\ page' = handleSubmit(page)

\* the request in flight settles
Settle(outcome) ==
    /\ page.inFlight # <<>>
    /\ page' = Settled(page, outcome)

\* subscribe-another or try-again is clicked, in the message that is shown
ResetClick(botField) ==
    /\ page.ready = "ready"
    /\ ~page.successHidden \/ ~page.errorHidden
    /\ page' = [resetForm(page, botField) EXCEPT !.lastEvent = "reset"]

InitClient ==
    /\ file = AbsentFile
    /\ dirExists = FALSE
    /\ now = 1
    /\ last = [event |-> NoEvent, before |-> file, response |-> Reply(0, "", file, dirExists)]
    /\ accepted = [e \in TrackedEmails |-> NoRun]
    /\ subscribed = <<>>
    /\ inv = [i \in Invocations |-> IdleInvocation]
    /\ page = InitialPage
    /\ catalog = NoCatalog

NextClient ==
    /\ \/ \E loaded \in BOOLEAN : PageInit(loaded)
       \/ \E text \in EmailTexts : TypeEmail(text)
       \/ BlurEmail
       \/ \E code \in Rendered : ToggleCountry(code)
       \/ \E selected \in BOOLEAN : SelectAll(selected)
       \/ FillBotField
       \/ Submit
       \/ \E outcome \in Outcomes : Settle(outcome)
       \/ \E botField \in {"", page.botField} : ResetClick(botField)
    /\ UNCHANGED <<file, dirExists, now, last, accepted, subscribed, inv, catalog>>

SpecClient == InitClient /\ [][NextClient]_vars

\* the elements shown among the form and the two messages
Shown ==
    (IF page.formHidden THEN {} ELSE {"form"})
    \cup (IF page.successHidden THEN {} ELSE {"success"})
    \cup (IF page.errorHidden THEN {} ELSE {"error"})

\* C13: the three UI states are mutually exclusive: at most one of the
\* form, the success message and the error message is shown at any time,
\* and exactly one once the page has initialised.
C13_OneUiState ==
    /\ Cardinality(Shown) <= 1
    /\ (page.ready # "loading" => Cardinality(Shown) = 1)

\* the error message alone, after a submit, a reset and a second submit that failed
C13_Witness ==
    /\ Shown = {"error"}
    /\ page.submits >= 2
    /\ page.lastEvent = "settle"

\* C14: a submit with the honeypot field populated shows the success
\* state and sends no request, whatever the email and the selection are,
\* and runs no validation (the error texts stay as they were).
C14_HoneypotDropsSilently ==
    (page.lastEvent = "submit" /\ page.lastSubmit.botField # "") =>
        /\ Shown = {"success"}
        /\ ~page.lastSubmit.sent
        /\ page.inFlight = <<>>
        /\ page.emailError = page.lastSubmit.emailError
        /\ page.countriesError = page.lastSubmit.countriesError

\* a submit with the honeypot populated, an invalid email and no country
C14_Witness ==
    /\ page.lastEvent = "submit"
    /\ page.lastSubmit.botField # ""
    /\ ~emailRegexTest(trim(page.lastSubmit.emailValue))
    /\ page.lastSubmit.checked = {}
    /\ Shown = {"success"}

ValidFields(s) ==
    /\ emailRegexTest(trim(s.emailValue))
    /\ Cardinality(s.checked) >= 1

SentOnlyWhenValid ==
    /\ page.lastSubmit.sent =>
           /\ page.lastSubmit.botField = ""
           /\ ValidFields(page.lastSubmit)
    /\ \A k \in 1..Len(page.inFlight) :
           /\ emailRegexTest(page.inFlight[k].email)
           /\ Cardinality(page.inFlight[k].countries) >= 1

\* C20 as stated: a request is sent only when the honeypot is empty, the
\* trimmed email matches the pattern and a country is checked; a submit
\* with an invalid email or no country sends nothing and leaves the form
\* state shown.
C20_Original ==
    /\ SentOnlyWhenValid
    /\ (page.lastEvent = "submit" /\ ~ValidFields(page.lastSubmit)) =>
           /\ ~page.lastSubmit.sent
           /\ Shown = {"form"}

\* C20: a request is sent only when the honeypot is empty, the trimmed
\* email matches the pattern and a country is checked; a submit with an
\* empty honeypot and an invalid email or no country sends nothing and
\* leaves the form state shown; with the honeypot populated it sends
\* nothing either.
C20_SendOnlyValid ==
    /\ SentOnlyWhenValid
    /\ (page.lastEvent = "submit" /\ ~ValidFields(page.lastSubmit)) =>
           /\ ~page.lastSubmit.sent
           /\ (page.lastSubmit.botField = "" => Shown = {"form"})

\* a submit with an empty honeypot and a valid email but no country: nothing sent, form shown
C20_Witness ==
    /\ page.lastEvent = "submit"
    /\ page.lastSubmit.botField = ""
    /\ emailRegexTest(trim(page.lastSubmit.emailValue))
    /\ page.lastSubmit.checked = {}
    /\ ~page.lastSubmit.sent
    /\ Shown = {"form"}
    /\ page.inFlight = <<>>

\* a submit that sent a request
C20_Sent ==
    /\ page.lastEvent = "submit"
    /\ page.lastSubmit.sent
    /\ page.inFlight # <<>>


(***************************************************************************)
(* The countries endpoint (the handler kept in src/Dockerfile, lines 68 to *)
(* 140) and loadCountries of the page. A configuration entry is a record   *)
(* [code, name, enabled]: code and name are strings, enabled is a          *)
(* JavaScript value, Undef when the entry has no flag.                     *)
(***************************************************************************)
\* the longest configuration list drawn
MaxConfig == 3

Country(code, name, enabled) == [code |-> code, name |-> name, enabled |-> enabled]

\* the rank of a character in the collation: the space, then the letters
Alphabet == " abcdefghijklmnopqrstuvwxyz"

Rank == [c \in {Ch(Alphabet, i) : i \in 1..Len(Alphabet)} |->
            CHOOSE i \in 1..Len(Alphabet) : Ch(Alphabet, i) = c]

\* first level of the comparison: letter by letter, whatever the case
RECURSIVE ComparePrimary(_, _)
ComparePrimary(a, b) ==
    IF a = "" /\ b = "" THEN 0
    ELSE IF a = "" THEN -1
    ELSE IF b = "" THEN 1
    ELSE LET ra == Rank[LowerChar(Ch(a, 1))]
             rb == Rank[LowerChar(Ch(b, 1))]
         IN  IF ra < rb THEN -1
             ELSE IF ra > rb THEN 1
             ELSE ComparePrimary(SubSeq(a, 2, Len(a)), SubSeq(b, 2, Len(b)))

\* last level, between texts with the same letters: at the first
\* difference the lowercase letter comes first
RECURSIVE CompareCase(_, _)
CompareCase(a, b) ==
    IF a = "" \/ b = "" THEN 0
    ELSE IF Ch(a, 1) = Ch(b, 1)
      THEN CompareCase(SubSeq(a, 2, Len(a)), SubSeq(b, 2, Len(b)))
    ELSE IF Ch(a, 1) \in DOMAIN UpperOf THEN -1
    ELSE 1

\* a.localeCompare(b), on letters and spaces
localeCompare(a, b) ==
    IF ComparePrimary(a, b) # 0 THEN ComparePrimary(a, b) ELSE CompareCase(a, b)

\* .sort((a, b) => a.name.localeCompare(b.name)); the sort is stable
RECURSIVE sortByName(_)
sortByName(seq) ==
    IF seq = <<>> THEN <<>>
    ELSE LET init == sortByName(SubSeq(seq, 1, Len(seq) - 1))
             x == seq[Len(seq)]
             k == Cardinality({i \in 1..Len(init) : localeCompare(init[i].name, x.name) <= 0})
         IN  SubSeq(init, 1, k) \o <<x>> \o SubSeq(init, k + 1, Len(init))

\* c => c.enabled !== false
IsEnabledStrict(c) == c.enabled = Bool("true")
IsEnabled(c) == c.enabled # Bool("false")

\* .filter(c => c.enabled !== false)
RECURSIVE filterEnabled(_)
filterEnabled(seq) ==
    IF seq = <<>> THEN <<>>
    ELSE IF IsEnabled(Head(seq)) THEN <<Head(seq)>> \o filterEnabled(Tail(seq))
    ELSE filterEnabled(Tail(seq))

\* .map(c => ({ code: c.code, name: c.name, enabled: true }))
mapEnabled(seq) == [i \in 1..Len(seq) |-> Country(seq[i].code, seq[i].name, Bool("true"))]

getDefaultCountries ==
    << Country("NO", "Norway", Bool("true")), Country("SE", "Sweden", Bool("true")),
       Country("DE", "Germany", Bool("true")), Country("NL", "Netherlands", Bool("true")),
       Country("DK", "Denmark", Bool("true")), Country("FI", "Finland", Bool("true")),
       Country("FR", "France", Bool("true")), Country("BE", "Belgium", Bool("true")),
       Country("AT", "Austria", Bool("true")), Country("CH", "Switzerland", Bool("true")),
       Country("IT", "Italy", Bool("true")), Country("ES", "Spain", Bool("true")),
       Country("PT", "Portugal", Bool("true")), Country("IE", "Ireland", Bool("true")),
       Country("PL", "Poland", Bool("true")), Country("CZ", "Czech Republic", Bool("true")),
       Country("HU", "Hungary", Bool("true")), Country("EU", "European Union", Bool("true")) >>

\* exports.handler of the countries endpoint: the status and the countries of the body
countriesHandler(config) ==
    IF config.kind = "corrupt"
    THEN [statusCode |-> 500, body |-> <<>>]
    ELSE LET countriesData == IF config.kind = "doc" THEN config.countries
                              ELSE getDefaultCountries
         IN  [statusCode |-> 200,
              body |-> sortByName(mapEnabled(filterEnabled(countriesData)))]

\* loadCountries of the page, lines 83-86, on the countries of a response
loadCountries(body) == sortByName(filterEnabled(body))

\* the entries configuration lists are made of
ConfigEntries ==
    { Country("NO", "Norway", Bool("true")), Country("SE", "sweden", Undef),
      Country("DK", "Denmark", Bool("false")), Country("AT", "Austria", Undef),
      Country("NW", "norway", Bool("true")), Country("N2", "Norway", Undef),
      Country("CZ", "Czech Republic", Bool("false")), Country("CH", "Czechia", Bool("true")) }

RECURSIVE ListsUpTo(_)
ListsUpTo(n) ==
    IF n = 0 THEN {<<>>}
    ELSE LET shorter == ListsUpTo(n - 1)
         IN  shorter \cup {Append(l, c) : l \in {s \in shorter : Len(s) = n - 1},
                                        c \in ConfigEntries}

Configs ==
    {[kind |-> "doc", countries |-> l] : l \in ListsUpTo(MaxConfig)}
    \cup {[kind |-> "absent", countries |-> <<>>], [kind |-> "corrupt", countries |-> <<>>]}

InitCountries ==
    /\ file = AbsentFile
    /\ dirExists = FALSE
    /\ now = 1
    /\ last = [event |-> NoEvent, before |-> file, response |-> Reply(0, "", file, dirExists)]
    /\ accepted = [e \in TrackedEmails |-> NoRun]
    /\ subscribed = <<>>
    /\ inv = [i \in Invocations |-> IdleInvocation]
    /\ page = InitialPage
    /\ catalog \in {[NoCatalog EXCEPT !.config = c] : c \in Configs}

\* a GET of the countries endpoint
GetCountries ==
    /\ catalog.phase = "start"
    /\ \E r \in {countriesHandler(catalog.config)} :
           catalog' = [catalog EXCEPT !.phase = "responded",
                                      !.statusCode = r.statusCode,
                                      !.body = r.body]
    /\ UNCHANGED <<file, dirExists, now, last, accepted, subscribed, inv, page>>

\* the page takes the response: loadCountries throws when it is not ok
LoadCountries ==
    /\ catalog.phase = "responded"
    /\ catalog' = IF catalog.statusCode = 200
                  THEN [catalog EXCEPT !.phase = "loaded",
                                       !.countries = loadCountries(catalog.body)]
                  ELSE [catalog EXCEPT !.phase = "failed"]
    /\ UNCHANGED <<file, dirExists, now, last, accepted, subscribed, inv, page>>

NextCountries == GetCountries \/ LoadCountries

SpecCountries == InitCountries /\ [][NextCountries]_vars

\* a name comes before another, or with it, in alphabetical order
RECURSIVE NameLeq(_, _)
NameLeq(a, b) ==
    \/ a = ""
    \/ /\ b # ""
       /\ \/ Rank[LowerChar(Ch(a, 1))] < Rank[LowerChar(Ch(b, 1))]
          \/ /\ LowerChar(Ch(a, 1)) = LowerChar(Ch(b, 1))
             /\ NameLeq(SubSeq(a, 2, Len(a)), SubSeq(b, 2, Len(b)))

\* how many entries of seq have this code and this name
Occurrences(seq, code, name) ==
    Cardinality({i \in 1..Len(seq) : seq[i].code = code /\ seq[i].name = name})

Responded == catalog.phase # "start" /\ catalog.config.kind = "doc"

\* C15: for every configuration list, in any order, the countries
\* endpoint returns exactly the entries whose enabled flag is not false
\* (entries without the flag included), each with enabled: true, in
\* ascending order of name.
C15_EnabledSortedByName ==
    Responded =>
        /\ catalog.statusCode = 200
        /\ \A c \in ConfigEntries :
               Occurrences(catalog.body, c.code, c.name) =
                   Cardinality({i \in 1..Len(catalog.config.countries) :
                                   /\ catalog.config.countries[i].code = c.code
                                   /\ catalog.config.countries[i].name = c.name
                                   /\ catalog.config.countries[i].enabled # Bool("false")})
        /\ \A i \in 1..Len(catalog.body) :
               /\ catalog.body[i].enabled = Bool("true")
               /\ DOMAIN catalog.body[i] = {"code", "name", "enabled"}
               /\ \A j \in (i + 1)..Len(catalog.body) :
                      NameLeq(catalog.body[i].name, catalog.body[j].name)

\* a list out of order with a disabled entry and an entry without the flag
C15_Witness ==
    /\ catalog.phase = "responded"
    /\ catalog.config.kind = "doc"
    /\ catalog.config.countries =
           <<Country("SE", "sweden", Undef), Country("DK", "Denmark", Bool("false")),
             Country("NO", "Norway", Bool("true"))>>
    /\ catalog.body =
           <<Country("NO", "Norway", Bool("true")), Country("SE", "sweden", Bool("true"))>>


(***************************************************************************)
(* Progress of the page. The promise of fetch settles, resolved or         *)
(* rejected, and the event loop then runs the rest of handleSubmit: the    *)
(* step that settles the request in flight is taken when it stays enabled. *)
(***************************************************************************)
SettleStep ==
    /\ \E outcome \in Outcomes : Settle(outcome)
    /\ UNCHANGED <<file, dirExists, now, last, accepted, subscribed, inv, catalog>>

SpecClientFair == SpecClient /\ WF_vars(SettleStep)

\* the form is shown with its button disabled and the spinner in place of the text
LoadingForm ==
    /\ Shown = {"form"}
    /\ page.submitDisabled
    /\ page.btnTextHidden /\ ~page.btnLoadingHidden

\* the success or the error message is shown and the button is enabled again
SettledState ==
    /\ page.lastEvent = "settle"
    /\ ~page.submitDisabled
    /\ ~page.btnTextHidden /\ page.btnLoadingHidden
    /\ Shown \in {{"success"}, {"error"}}
    /\ page.inFlight = <<>>

\* C21: the submit button is disabled exactly while a subscribe request is
\* in flight: it is disabled when the request is sent, the page is then in
\* the loading form state, and once the request settles (ok, not ok or
\* network failure) the button is enabled again and the page shows the
\* success or the error message; it never remains in the loading form state.
C21_DisabledWhileInFlight ==
    /\ [](page.submitDisabled <=> page.inFlight # <<>>)
    /\ [](page.inFlight # <<>> => LoadingForm /\ page.lastSubmit.sent)
    /\ [][page.inFlight # <<>> /\ page'.inFlight # page.inFlight => SettledState']_vars
    /\ (LoadingForm ~> SettledState)

\* a request was sent and settled with a response that is not ok
C21_Witness ==
    /\ SettledState
    /\ page.lastSubmit.sent
    /\ Shown = {"error"}
    /\ page.errorDetails = "Submission failed"

\* a request is in flight and the user edits the form
C21_Loading ==
    /\ LoadingForm
    /\ page.inFlight # <<>>
    /\ page.lastEvent = "input"

====
